---- MODULE Spec2Model ----
(***************************************************************************)
(* Model of the MQTT -> HTTP bridge of src/server.js: the shared record    *)
(* latestAirData, the 'message' handler that merges a (topic, payload)     *)
(* pair into it, the transport event handlers and the read-only routes.    *)
(***************************************************************************)
EXTENDS Integers, Sequences, FiniteSets, TLC

VARIABLES latestAirData, connected, subscribed, clock, log,
          delivered, pre, msg, pc, cur, obj, resp

vars == <<latestAirData, connected, subscribed, clock, log,
          delivered, pre, msg, pc, cur, obj, resp>>

(***************************************************************************)
(* JavaScript values.  Every value is a record tagged with its type, so    *)
(* that values of different types can be compared.                         *)
(***************************************************************************)
Undefined == [t |-> "undefined"]
Null == [t |-> "null"]
NaN == [t |-> "NaN"]
Num(n) == [t |-> "number", n |-> n]
Str(s) == [t |-> "string", s |-> s]
Bool(b) == [t |-> "boolean", b |-> b]
Arr(a) == [t |-> "array", a |-> a]
Obj(o) == [t |-> "object", o |-> o]
\* The ISO-8601 text of the instant ms (Date.prototype.toISOString).
Iso(ms) == [t |-> "isodate", ms |-> ms]
\* The completion of an evaluation that raised an exception.
Thrown == [t |-> "throw"]

\* Property read x.k: undefined for a missing key and for a primitive,
\* a TypeError for null.
GetProp(x, k) ==
    IF x.t = "null" \/ x.t = "undefined" THEN Thrown
    ELSE IF x.t = "object" /\ k \in DOMAIN x.o THEN x.o[k]
    ELSE Undefined

\* Property write rec[k] = v on a plain object (a function from keys).
SetProp(rec, k, v) ==
    [x \in (DOMAIN rec) \cup {k} |-> IF x = k THEN v ELSE rec[x]]

\* Property read on the record itself.
Field(rec, k) == IF k \in DOMAIN rec THEN rec[k] ELSE Undefined

(***************************************************************************)
(* Text conversions, as tables over the texts the model uses.              *)
(***************************************************************************)
\* StringToNumber: the texts that are numeric literals (after the
\* whitespace trimming Number() itself does); every other text is NaN.
NumericTexts ==
    ("" :> 0) @@ ("0" :> 0) @@ ("1" :> 1) @@ ("2" :> 2) @@ ("5" :> 5)
      @@ ("23" :> 23) @@ ("412" :> 412) @@ ("+412" :> 412) @@ ("0x17" :> 23)

StringToNumber(s) ==
    IF s \in DOMAIN NumericTexts THEN Num(NumericTexts[s]) ELSE NaN

\* Number::toString for the numbers the model uses.
NumberTexts ==
    (0 :> "0") @@ (1 :> "1") @@ (2 :> "2") @@ (5 :> "5") @@ (23 :> "23")
      @@ (412 :> "412")

\* String.prototype.toUpperCase: the texts it changes.
UpperCased ==
    ("on" :> "ON") @@ ("On" :> "ON") @@ ("off" :> "OFF") @@ ("abc" :> "ABC")
      @@ ("ok" :> "OK") @@ ("true" :> "TRUE") @@ ("false" :> "FALSE")
      @@ ("null" :> "NULL") @@ ("[object Object]" :> "[OBJECT OBJECT]")

ToUpperCase(s) == IF s \in DOMAIN UpperCased THEN UpperCased[s] ELSE s

\* String.prototype.trim on the payload texts the model uses.
Trimmed == (" 412 " :> "412") @@ ("  " :> "")

Trim(s) == IF s \in DOMAIN Trimmed THEN Trimmed[s] ELSE s

(***************************************************************************)
(* ToPrimitive, JsString (the call String(x)) and ToNumber (Number(x)).    *)
(* An object made by JSON.parse has no callable own method: its own        *)
(* "toString" member hides Object.prototype.toString, the inherited        *)
(* valueOf returns the object itself, and the conversion raises TypeError. *)
(***************************************************************************)
ToStringPrim(x) ==
    CASE x.t = "string" -> Str(x.s)
      [] x.t = "number" -> Str(NumberTexts[x.n])
      [] x.t = "boolean" -> Str(IF x.b THEN "true" ELSE "false")
      [] x.t = "null" -> Str("null")
      [] x.t = "undefined" -> Str("undefined")
      [] x.t = "NaN" -> Str("NaN")

\* Array.prototype.join of an array of at most one primitive element.
ToPrimitive(x) ==
    CASE x.t = "object" ->
            IF "toString" \in DOMAIN x.o THEN Thrown ELSE Str("[object Object]")
      [] x.t = "array" ->
            IF Len(x.a) = 0 THEN Str("")
            ELSE IF x.a[1].t \in {"null", "undefined"} THEN Str("")
            ELSE ToStringPrim(x.a[1])
      [] OTHER -> x

JsString(x) ==
    LET p == ToPrimitive(x) IN IF p = Thrown THEN Thrown ELSE ToStringPrim(p)

ToNumber(x) ==
    LET p == ToPrimitive(x) IN
    CASE p.t = "throw" -> Thrown
      [] p.t = "number" -> p
      [] p.t = "NaN" -> NaN
      [] p.t = "boolean" -> Num(IF p.b THEN 1 ELSE 0)
      [] p.t = "null" -> Num(0)
      [] p.t = "undefined" -> NaN
      [] p.t = "string" -> StringToNumber(p.s)

IsNaN(x) == x.t = "NaN"

(***************************************************************************)
(* Topics.  A topic is its text; TopicLevels gives its '/'-separated       *)
(* levels, on which prefix tests and subscription filters are decided.     *)
(***************************************************************************)
TOPIC_TEMP == "esp32/telemetry"
TOPIC_HUM == "esp32/state"
TOPIC_CO2 == "esp32/control/cmd"

TopicLevels ==
    ("esp32/telemetry" :> <<"esp32", "telemetry">>)
      @@ ("esp32/state" :> <<"esp32", "state">>)
      @@ ("esp32/control/cmd" :> <<"esp32", "control", "cmd">>)
      @@ ("esp32/temperature" :> <<"esp32", "temperature">>)
      @@ ("esp32/humidity" :> <<"esp32", "humidity">>)
      @@ ("esp32/co2" :> <<"esp32", "co2">>)
      @@ ("home/air/pressure" :> <<"home", "air", "pressure">>)
      @@ ("temperature" :> <<"temperature">>)

\* topic.startsWith('esp32/')
StartsWithEsp32(topic) ==
    LET lv == TopicLevels[topic] IN Len(lv) >= 2 /\ lv[1] = "esp32"

\* The filters 'home/air/#' and 'esp32/#' of the subscription: '#' matches
\* the parent level and everything below it.
MatchesFilter(topic, prefix) ==
    LET lv == TopicLevels[topic] IN
    Len(lv) >= Len(prefix) /\ SubSeq(lv, 1, Len(prefix)) = prefix

SubscribedFilters == {<<"home", "air">>, <<"esp32">>}

\* The topics the broker delivers to this client.
Topics ==
    {t \in DOMAIN TopicLevels : \E f \in SubscribedFilters : MatchesFilter(t, f)}

(***************************************************************************)
(* Payloads.  A payload is either a text, or the text of a JSON object     *)
(* given by its members in the order written.                              *)
(***************************************************************************)
Text(s) == [kind |-> "text", text |-> s]
Members(m) == [kind |-> "members", members |-> m]

\* The texts that are JSON numbers (a subset of the numeric texts) and the
\* other JSON texts the model uses; every other text is a SyntaxError.
JsonNumberTexts == {"0", "1", "2", "5", "23", "412"}

JsonTexts ==
    ("null" :> Null) @@ ("true" :> Bool(TRUE)) @@ ("\"ON\"" :> Str("ON"))
      @@ ("[]" :> Arr(<<>>))

\* The object a JSON object text denotes: a later member replaces an
\* earlier one of the same name.
RECURSIVE ObjectOf(_)
ObjectOf(m) ==
    IF Len(m) = 0 THEN <<>>
    ELSE SetProp(ObjectOf(SubSeq(m, 1, Len(m) - 1)), m[Len(m)][1], m[Len(m)][2])

\* JSON.parse(payloadStr), payloadStr being String(messageBuffer).trim().
JSONParse(payload) ==
    IF payload.kind = "members" THEN Obj(ObjectOf(payload.members))
    ELSE LET payloadStr == Trim(payload.text) IN
         IF payloadStr \in JsonNumberTexts THEN Num(NumericTexts[payloadStr])
         ELSE IF payloadStr \in DOMAIN JsonTexts THEN JsonTexts[payloadStr]
         ELSE Thrown

\* Number(payloadStr): the text of a JSON object is never numeric.
NumberOfPayload(payload) ==
    IF payload.kind = "members" THEN NaN
    ELSE StringToNumber(Trim(payload.text))

(***************************************************************************)
(* The record and the 'message' handler.  Each statement group of the      *)
(* structured branch is an operator from the record and the parsed value   *)
(* to a completion: the record as written so far, and whether the group    *)
(* raised an exception.                                                    *)
(***************************************************************************)
InitialAirData ==
    [temperature |-> Null, humidity |-> Null, co2_eq_ppm |-> Null,
     timestamp |-> Null, device_status |-> Null, last_topic |-> Null]

Normal(rec) == [rec |-> rec, threw |-> FALSE]
Abrupt(rec) == [rec |-> rec, threw |-> TRUE]

\* A numeric key guarded by "!== 'undefined' && !== null".
MapGuardedNumber(rec, o, key, field) ==
    LET x == GetProp(o, key) IN
    IF x = Thrown THEN Abrupt(rec)
    ELSE IF x # Undefined /\ x # Null
         THEN LET n == ToNumber(x) IN
              IF n = Thrown THEN Abrupt(rec)
              ELSE IF ~IsNaN(n) THEN Normal(SetProp(rec, field, n))
              ELSE Normal(rec)
         ELSE Normal(rec)

MapTemperature(rec, o) == MapGuardedNumber(rec, o, "temperature", "temperature")

MapHumidity(rec, o) == MapGuardedNumber(rec, o, "humidity", "humidity")

\* gas_mq135, else co2_eq_ppm: guarded by "!== 'undefined'" only.
MapGasKey(rec, x) ==
    LET g == ToNumber(x) IN
    IF g = Thrown THEN Abrupt(rec)
    ELSE IF ~IsNaN(g) THEN Normal(SetProp(rec, "co2_eq_ppm", g))
    ELSE Normal(rec)

\* A gas mapping that guards co2_eq_ppm, but not gas_mq135, against null.
MapGasGuardsAlias(rec, o) ==
    IF GetProp(o, "gas_mq135") = Thrown THEN Abrupt(rec)
    ELSE IF GetProp(o, "gas_mq135") # Undefined
         THEN MapGasKey(rec, GetProp(o, "gas_mq135"))
    ELSE IF GetProp(o, "co2_eq_ppm") # Undefined /\ GetProp(o, "co2_eq_ppm") # Null
         THEN MapGasKey(rec, GetProp(o, "co2_eq_ppm"))
    ELSE Normal(rec)

MapGas(rec, o) ==
    IF GetProp(o, "gas_mq135") = Thrown THEN Abrupt(rec)
    ELSE IF GetProp(o, "gas_mq135") # Undefined
         THEN MapGasKey(rec, GetProp(o, "gas_mq135"))
    ELSE IF GetProp(o, "co2_eq_ppm") # Undefined
         THEN MapGasKey(rec, GetProp(o, "co2_eq_ppm"))
    ELSE Normal(rec)

MapRelayPin(rec, o) ==
    LET x == GetProp(o, "relay_pin") IN
    IF x = Thrown THEN Abrupt(rec)
    ELSE IF x # Undefined
         THEN IF x = Num(1) \/ x = Str("1") \/ x = Bool(TRUE)
                 THEN Normal(SetProp(rec, "relay_pin", Num(1)))
              ELSE IF x = Num(0) \/ x = Str("0") \/ x = Bool(FALSE)
                 THEN Normal(SetProp(rec, "relay_pin", Num(0)))
              ELSE IF x.t = "string"
                 THEN Normal(SetProp(rec, "relay_pin",
                          IF ToUpperCase(x.s) = "ON" THEN Num(1) ELSE Num(0)))
              ELSE Normal(rec)
         ELSE Normal(rec)

\* A state mapping that yields to a pin flag in the same update.
MapStateKeepsPin(rec, o) ==
    LET x == GetProp(o, "state") IN
    IF x = Thrown THEN Abrupt(rec)
    ELSE IF x # Undefined /\ GetProp(o, "relay_pin") = Undefined
         THEN LET s == JsString(x) IN
              IF s = Thrown THEN Abrupt(rec)
              ELSE Normal(SetProp(rec, "relay_pin",
                       IF ToUpperCase(s.s) = "ON" THEN Num(1) ELSE Num(0)))
         ELSE Normal(rec)

MapState(rec, o) ==
    LET x == GetProp(o, "state") IN
    IF x = Thrown THEN Abrupt(rec)
    ELSE IF x # Undefined
         THEN LET s == JsString(x) IN
              IF s = Thrown THEN Abrupt(rec)
              ELSE Normal(SetProp(rec, "relay_pin",
                       IF ToUpperCase(s.s) = "ON" THEN Num(1) ELSE Num(0)))
         ELSE Normal(rec)

MapStatus(rec, o) ==
    LET x == GetProp(o, "status") IN
    IF x = Thrown THEN Abrupt(rec)
    ELSE IF x # Undefined
         THEN LET s == JsString(x) IN
              IF s = Thrown THEN Abrupt(rec)
              ELSE Normal(SetProp(rec, "device_status", s))
         ELSE Normal(rec)

\* last_topic = topic; timestamp = new Date().toISOString()
Stamp(rec, topic, now) ==
    SetProp(SetProp(rec, "last_topic", Str(topic)), "timestamp", Iso(now))

\* The try block after JSON.parse returned o: a raised exception skips
\* the statements after it.  Each completion c1 .. c6 is bound as the member
\* of a singleton set, which evaluates it once.
TryBlock(rec, o, topic, now) ==
    CHOOSE c \in
      {IF c6.threw THEN c6 ELSE Normal(Stamp(c6.rec, topic, now)) :
         c6 \in {IF c5.threw THEN c5 ELSE MapStatus(c5.rec, o) :
         c5 \in {IF c4.threw THEN c4 ELSE MapState(c4.rec, o) :
         c4 \in {IF c3.threw THEN c3 ELSE MapRelayPin(c3.rec, o) :
         c3 \in {IF c2.threw THEN c2 ELSE MapGas(c2.rec, o) :
         c2 \in {IF c1.threw THEN c1 ELSE MapHumidity(c1.rec, o) :
         c1 \in {MapTemperature(rec, o)}}}}}}} : TRUE

\* A catch block that adds the number to the temperature it already holds.
CatchWriteAccumulates(rec, topic, num) ==
    IF topic = "esp32/temperature"
    THEN SetProp(rec, "temperature",
                 IF Field(rec, "temperature").t = "number"
                 THEN Num(Field(rec, "temperature").n + num.n) ELSE num)
    ELSE IF topic = "esp32/humidity" THEN SetProp(rec, "humidity", num)
    ELSE IF topic = "esp32/co2" THEN SetProp(rec, "co2_eq_ppm", num)
    ELSE rec

\* The field write of the catch block, for a numeric payload.
CatchWrite(rec, topic, num) ==
    IF topic = "esp32/temperature" THEN SetProp(rec, "temperature", num)
    ELSE IF topic = "esp32/humidity" THEN SetProp(rec, "humidity", num)
    ELSE IF topic = "esp32/co2" THEN SetProp(rec, "co2_eq_ppm", num)
    ELSE rec

\* The catch block, had it stamped the record before testing the number.
CatchBlockStampsRejected(rec, topic, payload, now) ==
    LET num == NumberOfPayload(payload) IN
    IF ~IsNaN(num)
    THEN [rec |-> Stamp(CatchWrite(rec, topic, num), topic, now),
          log |-> "updated-esp32-numeric"]
    ELSE [rec |-> Stamp(rec, topic, now), log |-> "ignored-esp32"]

\* The catch block: the numeric fallback on an esp32/ topic.
CatchBlock(rec, topic, payload, now) ==
    LET num == NumberOfPayload(payload) IN
    IF ~IsNaN(num)
    THEN [rec |-> Stamp(CatchWrite(rec, topic, num), topic, now),
          log |-> "updated-esp32-numeric"]
    ELSE [rec |-> rec, log |-> "ignored-esp32"]

\* A try statement whose catch clause handles a failed parse only: an
\* exception of the mapping statements leaves the handler.
TryCatchRethrows(rec, o, topic, payload, now) ==
    IF o = Thrown THEN CatchBlock(rec, topic, payload, now)
    ELSE CHOOSE r \in
           {IF c.threw THEN [rec |-> c.rec, log |-> "uncaught"]
            ELSE [rec |-> c.rec, log |-> "updated-esp32"] :
              c \in {TryBlock(rec, o, topic, now)}} : TRUE

\* The outcome of the try statement, o being what JSON.parse gave.
TryCatch(rec, o, topic, payload, now) ==
    IF o = Thrown THEN CatchBlock(rec, topic, payload, now)
    ELSE CHOOSE r \in
           {IF c.threw THEN CatchBlock(c.rec, topic, payload, now)
            ELSE [rec |-> c.rec, log |-> "updated-esp32"] :
              c \in {TryBlock(rec, o, topic, now)}} : TRUE

\* The branch taken for a topic that starts with 'esp32/'.
Esp32Branch(rec, topic, payload, now) ==
    CHOOSE r \in {TryCatch(rec, o, topic, payload, now) : o \in {JSONParse(payload)}} :
       TRUE

\* The numeric branch's write, had it dropped a value on an unknown topic.
NumericWriteDropsUnknown(rec, topic, numeric) ==
    IF topic = TOPIC_TEMP THEN SetProp(rec, "temperature", numeric)
    ELSE IF topic = TOPIC_HUM THEN SetProp(rec, "humidity", numeric)
    ELSE IF topic = TOPIC_CO2 THEN SetProp(rec, "co2_eq_ppm", numeric)
    ELSE rec

\* The field write of the numeric branch.
NumericWrite(rec, topic, numeric) ==
    IF topic = TOPIC_TEMP THEN SetProp(rec, "temperature", numeric)
    ELSE IF topic = TOPIC_HUM THEN SetProp(rec, "humidity", numeric)
    ELSE IF topic = TOPIC_CO2 THEN SetProp(rec, "co2_eq_ppm", numeric)
    ELSE SetProp(rec, topic, numeric)

\* The branch taken for every other topic.
NumericBranch(rec, topic, payload, now) ==
    LET numeric == NumberOfPayload(payload) IN
    IF ~IsNaN(numeric)
    THEN [rec |-> Stamp(NumericWrite(rec, topic, numeric), topic, now),
          log |-> "updated-numeric"]
    ELSE [rec |-> rec, log |-> "ignored"]

\* mqttClient.on('message', (topic, messageBuffer) => ...): the record and
\* the last console line after the handler returned.
OnMessage(rec, topic, payload, now) ==
    IF StartsWithEsp32(topic) THEN Esp32Branch(rec, topic, payload, now)
    ELSE NumericBranch(rec, topic, payload, now)

(***************************************************************************)
(* Inputs: the payloads the environment publishes.                         *)
(***************************************************************************)
EmptyObject == Obj(<<>>)
\* {"toString": 1}: an object whose conversion to a primitive raises.
Unconvertible == Obj([toString |-> Num(1)])

Single(k, V) == {Members(<< <<k, v>> >>) : v \in V}
Pair(k1, V1, k2, V2) ==
    {Members(<< <<k1, m[1]>>, <<k2, m[2]>> >>) : m \in V1 \X V2}

TextPayloads ==
    {Text(s) : s \in {"412", " 412 ", "+412", "", "not-a-number", "null"}}

\* Texts and the common telemetry, relay and status objects.
Payloads ==
    TextPayloads
      \cup {Members(<<>>)}
      \cup Single("foo", {Num(1)})
      \cup Single("temperature", {Num(23), Str("5"), Null, Bool(TRUE)})
      \cup Single("humidity", {Num(5)})
      \cup Single("gas_mq135", {Num(412)})
      \cup Single("co2_eq_ppm", {Num(412), Str("abc")})
      \cup Single("relay_pin", {Num(1), Str("abc")})
      \cup Single("state", {Str("on")})
      \cup Single("status", {Str("ok"), Unconvertible})
      \cup Pair("temperature", {Num(23)}, "humidity", {Num(5)})
      \cup Pair("temperature", {Num(23)}, "state", {Unconvertible})

\* Telemetry objects, well-formed and malformed, key by key.
JsonPayloads ==
    {Text("412"), Members(<<>>)}
      \cup Single("temperature", {Num(23), Str("5"), Null, Str(""), Bool(TRUE),
                                  Arr(<<>>), EmptyObject, Unconvertible})
      \cup Single("humidity", {Num(5), Null, Str("")})
      \cup Single("gas_mq135", {Num(412), Null, Str(""), Str("abc")})
      \cup Single("co2_eq_ppm", {Num(412), Null, Str("abc")})
      \cup Single("status", {Str("ok"), Num(5)})
      \cup Pair("temperature", {Num(23)}, "humidity", {Num(5)})
      \cup Pair("gas_mq135", {Num(412), Str("abc")}, "co2_eq_ppm", {Num(23)})
      \cup Pair("temperature", {Num(5)}, "temperature", {Num(23)})

\* Relay and actuator objects, with a few others to move the other fields.
RelayPayloads ==
    {Text("412"), Text("not-a-number"), Members(<<>>)}
      \cup Single("temperature", {Num(23)})
      \cup Single("relay_pin", {Num(1), Num(0), Str("1"), Str("0"), Bool(TRUE),
                                Bool(FALSE), Str("ON"), Str("on"), Str("OFF"),
                                Str("off"), Str("abc"), Num(2), Null, EmptyObject})
      \cup Single("state", {Str("ON"), Str("on"), Str("OFF"), Str("abc"), Null,
                            Unconvertible})
      \cup Pair("relay_pin", {Num(1), Num(0), Num(2)}, "state", {Str("On"), Str("off")})

\* The number of messages delivered in one run.
MaxMsgs == 2

NoMessage == [topic |-> "", payload |-> Text("")]
NoResponse == [route |-> "", body |-> Undefined, of |-> InitialAirData]

(***************************************************************************)
(* The ingestion core: the transport connects and subscribes, then         *)
(* delivers messages one at a time; each delivery runs the whole handler.  *)
(* pre and msg record the record before the last delivery and the message  *)
(* delivered.                                                              *)
(***************************************************************************)
Init ==
    /\ latestAirData = InitialAirData
    /\ connected = FALSE
    /\ subscribed = FALSE
    /\ clock = 0
    /\ log = "start"
    /\ delivered = 0
    /\ pre = InitialAirData
    /\ msg = NoMessage
    /\ pc = "idle"
    /\ cur = NoMessage
    /\ obj = Undefined
    /\ resp = NoResponse

\* mqttClient.on('connect'): subscribe; the callback gets err or granted.
Connect(granted) ==
    /\ ~connected
    /\ connected' = TRUE
    /\ subscribed' = granted
    /\ log' = IF granted THEN "subscribed" ELSE "subscribe-error"
    /\ UNCHANGED <<latestAirData, clock, delivered, pre, msg, pc, cur, obj, resp>>

\* mqttClient.on('message') run to completion.
Message(topic, payload, now) ==
    /\ subscribed
    /\ delivered < MaxMsgs
    /\ \E r \in {OnMessage(latestAirData, topic, payload, now)} :
         /\ latestAirData' = r.rec
         /\ log' = r.log
    /\ pre' = latestAirData
    /\ msg' = [topic |-> topic, payload |-> payload]
    /\ clock' = now
    /\ delivered' = delivered + 1
    /\ UNCHANGED <<connected, subscribed, pc, cur, obj, resp>>

\* Each message is handled at a later instant than the one before it.
Next ==
    \/ \E granted \in BOOLEAN : Connect(granted)
    \/ \E topic \in Topics, payload \in Payloads :
          Message(topic, payload, clock + 1)

Spec == Init /\ [][Next]_vars

\* The same system fed the telemetry objects.
JsonNext ==
    \/ \E granted \in BOOLEAN : Connect(granted)
    \/ \E topic \in Topics, payload \in JsonPayloads :
          Message(topic, payload, clock + 1)

JsonSpec == Init /\ [][JsonNext]_vars

\* The same system fed the relay and actuator payloads.
RelayNext ==
    \/ \E granted \in BOOLEAN : Connect(granted)
    \/ \E topic \in Topics, payload \in RelayPayloads :
          Message(topic, payload, clock + 1)

RelaySpec == Init /\ [][RelayNext]_vars

\* The broker delivers the last message once more (a duplicate, as after a
\* reconnect): the handler runs again on the same topic and payload.
Redeliver(now) ==
    /\ subscribed
    /\ delivered > 0
    /\ delivered <= MaxMsgs
    /\ \E r \in {OnMessage(latestAirData, msg.topic, msg.payload, now)} :
         /\ latestAirData' = r.rec
         /\ log' = r.log
    /\ pre' = latestAirData
    /\ clock' = now
    /\ delivered' = MaxMsgs + 1
    /\ UNCHANGED <<connected, subscribed, msg, pc, cur, obj, resp>>

\* The ingestion core with duplicate delivery.
DupNext ==
    \/ \E granted \in BOOLEAN : Connect(granted)
    \/ \E topic \in Topics, payload \in Payloads :
          Message(topic, payload, clock + 1)
    \/ Redeliver(clock + 1)

DupSpec == Init /\ [][DupNext]_vars

(***************************************************************************)
(* The event loop: every callback of the process, the 'message' handler    *)
(* taken statement group by statement group.  pc is the handler's          *)
(* position; "idle" means no callback is on the stack.  Node runs a        *)
(* callback to completion before it dispatches the next event.             *)
(***************************************************************************)
MQTT_BROKER_URL == "mqtt://10.41.232.58:1884"

\* JSON.stringify of a plain object: a member that is undefined is left out.
Serialize(rec) == [k \in {x \in DOMAIN rec : rec[x] # Undefined} |-> rec[k]]

RecordRoutes ==
    {"/api/air/latest", "/api/air/temperature", "/api/air/humidity", "/api/air/co2"}

\* The body a route answers with, read from the record rec.
RouteBody(route, rec) ==
    CASE route = "/api/air/latest" -> Serialize(rec)
      [] route = "/api/air/temperature" ->
            Serialize([temperature |-> Field(rec, "temperature"),
                       timestamp |-> Field(rec, "timestamp")])
      [] route = "/api/air/humidity" ->
            Serialize([humidity |-> Field(rec, "humidity"),
                       timestamp |-> Field(rec, "timestamp")])
      [] route = "/api/air/co2" ->
            Serialize([co2_eq_ppm |-> Field(rec, "co2_eq_ppm"),
                       timestamp |-> Field(rec, "timestamp")])

\* The messages the loop is fed.
LoopMessages ==
    {[topic |-> "esp32/telemetry",
      payload |-> Members(<< <<"temperature", Num(23)>>, <<"humidity", Num(5)>> >>)],
     [topic |-> "esp32/telemetry",
      payload |-> Members(<< <<"temperature", Num(5)>>, <<"state", Unconvertible>> >>)],
     [topic |-> "esp32/state",
      payload |-> Members(<< <<"relay_pin", Num(1)>>, <<"status", Str("ok")>> >>)],
     [topic |-> "esp32/state",
      payload |-> Members(<< <<"temperature", Null>>, <<"gas_mq135", Null>>,
                             <<"status", Null>> >>)],
     [topic |-> "esp32/control/cmd", payload |-> Text("null")],
     [topic |-> "esp32/temperature", payload |-> Text("+412")],
     [topic |-> "esp32/co2", payload |-> Text("not-a-number")],
     [topic |-> "home/air/pressure", payload |-> Text("412")],
     [topic |-> "home/air/pressure", payload |-> Text("not-a-number")]}

\* A loop that dispatches an event while a callback is on the stack.
CanDispatchAnytime == TRUE

\* The loop may dispatch the next event: no callback is running.  The
\* 'message' handler is a plain synchronous function: it never yields.
CanDispatch == pc = "idle"

\* The record as of the last completed callback.
Boundary == IF pc = "idle" THEN latestAirData ELSE pre

\* A 'close' handler that starts the record over.
CloseResetsRecord ==
    /\ CanDispatch
    /\ connected
    /\ connected' = FALSE
    /\ subscribed' = FALSE
    /\ log' = "closed"
    /\ latestAirData' = InitialAirData
    /\ UNCHANGED <<clock, delivered, pre, msg, pc, cur, obj, resp>>

\* mqttClient.on('close')
Close ==
    /\ CanDispatch
    /\ connected
    /\ connected' = FALSE
    /\ subscribed' = FALSE
    /\ log' = "closed"
    /\ UNCHANGED <<latestAirData, clock, delivered, pre, msg, pc, cur, obj, resp>>

\* mqttClient.on('error')
Error ==
    /\ CanDispatch
    /\ log' = "error"
    /\ UNCHANGED <<latestAirData, connected, subscribed, clock, delivered, pre,
                   msg, pc, cur, obj, resp>>

\* mqttClient.on('offline')
Offline ==
    /\ CanDispatch
    /\ ~connected
    /\ log' = "offline"
    /\ UNCHANGED <<latestAirData, connected, subscribed, clock, delivered, pre,
                   msg, pc, cur, obj, resp>>

\* A 'reconnect' handler that forgets the readings taken before the gap.
ReconnectClearsRecord ==
    /\ CanDispatch
    /\ ~connected
    /\ log' = "reconnecting"
    /\ latestAirData' = InitialAirData
    /\ UNCHANGED <<connected, subscribed, clock, delivered, pre, msg, pc, cur,
                   obj, resp>>

\* mqttClient.on('reconnect')
Reconnect ==
    /\ CanDispatch
    /\ ~connected
    /\ log' = "reconnecting"
    /\ UNCHANGED <<latestAirData, connected, subscribed, clock, delivered, pre,
                   msg, pc, cur, obj, resp>>

\* mqttClient.on('connect'), dispatched by the loop.
LoopConnect(granted) == CanDispatch /\ Connect(granted)

\* The handler is entered: payloadStr is taken and the message is logged.
BeginMessage(m) ==
    /\ CanDispatch
    /\ subscribed
    /\ delivered < MaxMsgs
    /\ cur' = m
    /\ pre' = latestAirData
    /\ pc' = IF StartsWithEsp32(m.topic) THEN "parse" ELSE "numeric"
    /\ log' = "message"
    /\ delivered' = delivered + 1
    /\ clock' = clock + 1
    /\ UNCHANGED <<latestAirData, connected, subscribed, msg, obj, resp>>

\* The handler returns.
Return(line) ==
    /\ pc' = "idle"
    /\ msg' = cur
    /\ log' = line

\* const obj = JSON.parse(payloadStr)
StepParse ==
    /\ pc = "parse"
    /\ obj' = JSONParse(cur.payload)
    /\ pc' = IF JSONParse(cur.payload) = Thrown THEN "catch" ELSE "temperature"
    /\ UNCHANGED <<latestAirData, connected, subscribed, clock, log, delivered,
                   pre, msg, cur, resp>>

\* One statement group of the try block has run with completion c.
StepMap(c, next) ==
    /\ latestAirData' = c.rec
    /\ pc' = IF c.threw THEN "catch" ELSE next
    /\ UNCHANGED <<connected, subscribed, clock, log, delivered, pre, msg, cur,
                   obj, resp>>

StepTemperature ==
    /\ pc = "temperature"
    /\ StepMap(MapTemperature(latestAirData, obj), "humidity")

StepHumidity ==
    /\ pc = "humidity"
    /\ StepMap(MapHumidity(latestAirData, obj), "gas")

StepGas ==
    /\ pc = "gas"
    /\ StepMap(MapGas(latestAirData, obj), "relay_pin")

StepRelayPin ==
    /\ pc = "relay_pin"
    /\ StepMap(MapRelayPin(latestAirData, obj), "state")

StepState ==
    /\ pc = "state"
    /\ StepMap(MapState(latestAirData, obj), "status")

StepStatus ==
    /\ pc = "status"
    /\ StepMap(MapStatus(latestAirData, obj), "stamp")

\* The stamp that ends the try block.
StepStamp ==
    /\ pc = "stamp"
    /\ latestAirData' = Stamp(latestAirData, cur.topic, clock)
    /\ Return("updated-esp32")
    /\ UNCHANGED <<connected, subscribed, clock, delivered, pre, cur, obj, resp>>

\* The catch block up to its field write.
StepCatch ==
    /\ pc = "catch"
    /\ IF ~IsNaN(NumberOfPayload(cur.payload))
       THEN /\ latestAirData' =
                  CatchWrite(latestAirData, cur.topic, NumberOfPayload(cur.payload))
            /\ pc' = "catch_stamp"
            /\ UNCHANGED <<msg, log>>
       ELSE /\ Return("ignored-esp32")
            /\ UNCHANGED latestAirData
    /\ UNCHANGED <<connected, subscribed, clock, delivered, pre, cur, obj, resp>>

StepCatchStamp ==
    /\ pc = "catch_stamp"
    /\ latestAirData' = Stamp(latestAirData, cur.topic, clock)
    /\ Return("updated-esp32-numeric")
    /\ UNCHANGED <<connected, subscribed, clock, delivered, pre, cur, obj, resp>>

\* The numeric branch up to its field write.
StepNumeric ==
    /\ pc = "numeric"
    /\ IF ~IsNaN(NumberOfPayload(cur.payload))
       THEN /\ latestAirData' =
                  NumericWrite(latestAirData, cur.topic, NumberOfPayload(cur.payload))
            /\ pc' = "numeric_stamp"
            /\ UNCHANGED <<msg, log>>
       ELSE /\ Return("ignored")
            /\ UNCHANGED latestAirData
    /\ UNCHANGED <<connected, subscribed, clock, delivered, pre, cur, obj, resp>>

StepNumericStamp ==
    /\ pc = "numeric_stamp"
    /\ latestAirData' = Stamp(latestAirData, cur.topic, clock)
    /\ Return("updated-numeric")
    /\ UNCHANGED <<connected, subscribed, clock, delivered, pre, cur, obj, resp>>

\* app.get(route) for the four routes that read the record.  of is the
\* record as of the last completed callback when the route ran.
GetRecord(route) ==
    /\ CanDispatch
    /\ resp' = [route |-> route, body |-> RouteBody(route, latestAirData),
                of |-> Boundary]
    /\ UNCHANGED <<latestAirData, connected, subscribed, clock, log, delivered,
                   pre, msg, pc, cur, obj>>

\* app.get('/')
GetRoot ==
    /\ CanDispatch
    /\ resp' = [route |-> "/", body |-> Str("Air quality backend is running"),
                of |-> Boundary]
    /\ UNCHANGED <<latestAirData, connected, subscribed, clock, log, delivered,
                   pre, msg, pc, cur, obj>>

\* app.get('/api/air/mqtt-health')
GetMqttHealth ==
    /\ CanDispatch
    /\ resp' = [route |-> "/api/air/mqtt-health",
                body |-> [connected |-> Bool(connected), broker |-> Str(MQTT_BROKER_URL)],
                of |-> Boundary]
    /\ UNCHANGED <<latestAirData, connected, subscribed, clock, log, delivered,
                   pre, msg, pc, cur, obj>>

LoopNext ==
    \/ \E granted \in BOOLEAN : LoopConnect(granted)
    \/ Close
    \/ Error
    \/ Offline
    \/ Reconnect
    \/ \E m \in LoopMessages : BeginMessage(m)
    \/ StepParse
    \/ StepTemperature
    \/ StepHumidity
    \/ StepGas
    \/ StepRelayPin
    \/ StepState
    \/ StepStatus
    \/ StepStamp
    \/ StepCatch
    \/ StepCatchStamp
    \/ StepNumeric
    \/ StepNumericStamp
    \/ \E route \in RecordRoutes : GetRecord(route)
    \/ GetRoot
    \/ GetMqttHealth

LoopSpec == Init /\ [][LoopNext]_vars

(***************************************************************************)
(* Vocabulary of the properties.                                           *)
(***************************************************************************)
StampFields == {"timestamp", "last_topic"}
CoreFields == {"temperature", "humidity", "co2_eq_ppm", "relay_pin", "device_status"}
RecognizedKeys ==
    {"temperature", "humidity", "gas_mq135", "co2_eq_ppm", "relay_pin", "state", "status"}

\* A message has been handled: pre, msg and latestAirData are its before,
\* its input and its after.
Handled == delivered > 0

\* Some data field (a core field or an extension entry) differs.
DataChanged(a, b) ==
    \E k \in ((DOMAIN a) \cup (DOMAIN b)) \ StampFields : Field(a, k) # Field(b, k)

StampChanged(a, b) == \E k \in StampFields : Field(a, k) # Field(b, k)

\* The handler assigns a data field for this message: run on a record with
\* no fields, it leaves one behind.
WritesData(m) ==
    (DOMAIN OnMessage(<<>>, m.topic, m.payload, 0).rec) \ StampFields # {}

IsObjectPayload(p) == p.kind = "members"
KeysOf(p) == {p.members[i][1] : i \in 1..Len(p.members)}
ValueOf(p, k) == ObjectOf(p.members)[k]

ParsesAsJson(p) == JSONParse(p) # Thrown
ParsesAsNumber(p) == ~IsNaN(NumberOfPayload(p))

LegacyTopics == {TOPIC_TEMP, TOPIC_HUM, TOPIC_CO2}

(***************************************************************************)
(* C1 - C8: the message handler's contract.                                *)
(***************************************************************************)

\* C1: processing a message changes timestamp or last_topic only if the
\* message wrote at least one data field.
C1_StampOnlyWithData ==
    (Handled /\ StampChanged(pre, latestAirData)) => WritesData(msg)

\* C2: if processing a message changes a data field, the same step sets
\* last_topic to the message's topic and timestamp to the current time.
C2_DataChangeIsStamped ==
    (Handled /\ DataChanged(pre, latestAirData)) =>
        /\ Field(latestAirData, "last_topic") = Str(msg.topic)
        /\ Field(latestAirData, "timestamp") = Iso(clock)

\* C3: a payload that parses neither as a number nor as JSON leaves the
\* whole record as it was, on every topic.
C3_RejectedLeavesRecord ==
    (Handled /\ ~ParsesAsJson(msg.payload) /\ ~ParsesAsNumber(msg.payload)) =>
        latestAirData = pre

C3_Witness ==
    /\ Handled
    /\ msg.topic = TOPIC_TEMP
    /\ msg.payload = Text("not-a-number")
    /\ pre # InitialAirData
    /\ log = "ignored-esp32"

\* A number, or a text that is a numeric literal.
ValidNumber(v) ==
    \/ v.t = "number"
    \/ v.t = "string" /\ v.s # "" /\ v.s \in DOMAIN NumericTexts

\* The relay_pin value a pin flag stands for; Undefined for any other
\* representation.
CoercedPin(v) ==
    IF v \in {Num(1), Str("1"), Bool(TRUE)} THEN Num(1)
    ELSE IF v \in {Num(0), Str("0"), Bool(FALSE)} THEN Num(0)
    ELSE IF v.t = "string" /\ ToUpperCase(v.s) = "ON" THEN Num(1)
    ELSE IF v.t = "string" /\ ToUpperCase(v.s) = "OFF" THEN Num(0)
    ELSE Undefined

\* The values the update may give a field: those of its keys that are
\* present with a valid value; none when no key is.
ValidValues(p, keys) ==
    {ToNumber(ValueOf(p, k)) : k \in {x \in keys \cap KeysOf(p) : ValidNumber(ValueOf(p, x))}}

NumberFieldAsClaimed(p, keys, field) ==
    IF ValidValues(p, keys) # {}
    THEN Field(latestAirData, field) \in ValidValues(p, keys)
    ELSE Field(latestAirData, field) = Field(pre, field)

RelayAsClaimed(p) ==
    IF "state" \in KeysOf(p) /\ ValueOf(p, "state").t = "string"
    THEN Field(latestAirData, "relay_pin") =
            (IF ToUpperCase(ValueOf(p, "state").s) = "ON" THEN Num(1) ELSE Num(0))
    ELSE IF "relay_pin" \in KeysOf(p) /\ CoercedPin(ValueOf(p, "relay_pin")) # Undefined
    THEN Field(latestAirData, "relay_pin") = CoercedPin(ValueOf(p, "relay_pin"))
    ELSE Field(latestAirData, "relay_pin") = Field(pre, "relay_pin")

StatusAsClaimed(p) ==
    IF "status" \in KeysOf(p)
    THEN ValueOf(p, "status").t = "string" =>
            Field(latestAirData, "device_status") = ValueOf(p, "status")
    ELSE Field(latestAirData, "device_status") = Field(pre, "device_status")

\* C4: a JSON object on an esp32/ topic with only recognized keys sets
\* exactly the data fields whose keys are present with valid values, to
\* those values; every other data field keeps its prior value.
C4_PartialUpdateFrame ==
    (/\ Handled
     /\ StartsWithEsp32(msg.topic)
     /\ IsObjectPayload(msg.payload)
     /\ KeysOf(msg.payload) \subseteq RecognizedKeys) =>
        /\ NumberFieldAsClaimed(msg.payload, {"temperature"}, "temperature")
        /\ NumberFieldAsClaimed(msg.payload, {"humidity"}, "humidity")
        /\ NumberFieldAsClaimed(msg.payload, {"gas_mq135", "co2_eq_ppm"}, "co2_eq_ppm")
        /\ RelayAsClaimed(msg.payload)
        /\ StatusAsClaimed(msg.payload)
        /\ DOMAIN latestAirData \ (CoreFields \cup StampFields)
              = DOMAIN pre \ (CoreFields \cup StampFields)

\* C5: relay_pin is always unknown, 0 or 1; a pin flag of 1, "1" or true
\* sets it to 1, of 0, "0" or false to 0, "ON"/"OFF" in any letter case to
\* 1/0, and any other representation leaves it at its previous value.
C5_RelayPinCoercion ==
    /\ Field(latestAirData, "relay_pin") \in {Undefined, Num(0), Num(1)}
    /\ (/\ Handled
        /\ StartsWithEsp32(msg.topic)
        /\ IsObjectPayload(msg.payload)
        /\ "relay_pin" \in KeysOf(msg.payload)
        /\ "state" \notin KeysOf(msg.payload)) =>
          Field(latestAirData, "relay_pin") =
             (IF CoercedPin(ValueOf(msg.payload, "relay_pin")) # Undefined
              THEN CoercedPin(ValueOf(msg.payload, "relay_pin"))
              ELSE Field(pre, "relay_pin"))

\* The record after the numeric fallback as the claim describes it.
FallbackAsClaimed(topic, n) ==
    IF topic = "esp32/temperature" THEN Field(latestAirData, "temperature") = n
    ELSE IF topic = "esp32/humidity" THEN Field(latestAirData, "humidity") = n
    ELSE IF topic = "esp32/co2" THEN Field(latestAirData, "co2_eq_ppm") = n
    ELSE latestAirData = pre

\* C6: on an esp32/ topic a payload that is not a JSON object and whose
\* trimmed text is a number sets temperature on esp32/temperature, humidity
\* on esp32/humidity, co2_eq_ppm on esp32/co2, and changes nothing on any
\* other esp32/ topic.
C6_NumericFallback ==
    (/\ Handled
     /\ StartsWithEsp32(msg.topic)
     /\ ~IsObjectPayload(msg.payload)
     /\ ParsesAsNumber(msg.payload)) =>
        FallbackAsClaimed(msg.topic, NumberOfPayload(msg.payload))

\* C7: a numeric payload n on the topic named by TOPIC_TEMP, TOPIC_HUM or
\* TOPIC_CO2 sets temperature, humidity or co2_eq_ppm to n.
C7_LegacyTopics ==
    (Handled /\ msg.topic \in LegacyTopics /\ ParsesAsNumber(msg.payload)) =>
        LET n == NumberOfPayload(msg.payload) IN
        /\ msg.topic = TOPIC_TEMP => Field(latestAirData, "temperature") = n
        /\ msg.topic = TOPIC_HUM => Field(latestAirData, "humidity") = n
        /\ msg.topic = TOPIC_CO2 => Field(latestAirData, "co2_eq_ppm") = n

\* C8: a numeric payload n on a topic outside the esp32/ namespace and the
\* three legacy names is stored in the extension mapping under the topic's
\* text, and the core fields keep their values.
C8_UnknownNumericTopic ==
    (/\ Handled
     /\ ~StartsWithEsp32(msg.topic)
     /\ msg.topic \notin LegacyTopics
     /\ ParsesAsNumber(msg.payload)) =>
        /\ Field(latestAirData, msg.topic) = NumberOfPayload(msg.payload)
        /\ \A f \in CoreFields : Field(latestAirData, f) = Field(pre, f)

C8_Witness ==
    /\ Handled
    /\ msg = [topic |-> "home/air/pressure", payload |-> Text("412")]
    /\ Field(pre, "temperature") = Num(23)
    /\ Field(pre, "home/air/pressure") = Undefined
    /\ Field(latestAirData, "home/air/pressure") = Num(412)
    /\ Field(latestAirData, "temperature") = Num(23)

(***************************************************************************)
(* C9, C10: the event loop.                                                *)
(***************************************************************************)
Known(v) == v # Null /\ v # Undefined

\* C9: every response of a route that reads the record is the record as it
\* stood after a completed callback, never the record part-way through a
\* message.
C9_ReadsSeeBoundary ==
    resp.route \in RecordRoutes => resp.body = RouteBody(resp.route, resp.of)

\* A handler is part-way through a message, and the last response was
\* served from the record as it stood before that message.
C9_Witness ==
    /\ pc = "humidity"
    /\ Field(latestAirData, "temperature") # Field(pre, "temperature")
    /\ resp.route = "/api/air/latest"
    /\ resp.body = Serialize(pre)
    /\ Field(pre, "last_topic") # Null

\* C10: once temperature, humidity, co2_eq_ppm, relay_pin, device_status,
\* timestamp or last_topic holds a known value, it holds one in every later
\* state, whatever message or transport event comes.
C10_NeverReset ==
    [][\A f \in CoreFields \cup StampFields :
          Known(Field(latestAirData, f)) => Known(Field(latestAirData', f))]_vars

\* The transport went down and is reconnecting, with data in the record.
C10_Witness ==
    /\ ~connected
    /\ log = "reconnecting"
    /\ Known(Field(latestAirData, "temperature"))
    /\ Known(Field(latestAirData, "relay_pin"))
    /\ Known(Field(latestAirData, "timestamp"))

(***************************************************************************)
(* C11 - C14: relations between messages.                                  *)
(***************************************************************************)
\* The fields the handler assigns for a message, with the values it gives
\* them: what it leaves behind when run on a record with no fields.
Produced(m) == OnMessage(<<>>, m.topic, m.payload, 0).rec

\* C11: messages merge one at a time with last value wins: after a message,
\* each data field holds the value that message produced for it, or else
\* what it held before (the value of the latest earlier message that
\* produced one, or unknown), and last_topic is the topic of the latest
\* message that wrote a data field.
C11_LastValueWins ==
    Handled =>
        /\ \A f \in ((DOMAIN latestAirData) \cup (DOMAIN pre)) \ StampFields :
              Field(latestAirData, f) =
                 (IF f \in DOMAIN Produced(msg) THEN Produced(msg)[f]
                  ELSE Field(pre, f))
        /\ Field(latestAirData, "last_topic") =
              (IF WritesData(msg) THEN Str(msg.topic) ELSE Field(pre, "last_topic"))

\* Every field but timestamp is the same in both records.
SameButTimestamp(a, b) ==
    \A f \in ((DOMAIN a) \cup (DOMAIN b)) \ {"timestamp"} : Field(a, f) = Field(b, f)

\* C12: processing a message a second time in succession leaves every data
\* field and last_topic as they were after the first time; only timestamp
\* may differ.
C12_Idempotent ==
    [][(delivered > 0 /\ delivered' > delivered /\ msg' = msg) =>
          SameButTimestamp(latestAirData, latestAirData')]_vars

\* A valid update was delivered twice to a record that already held data.
C12_Witness ==
    /\ delivered = MaxMsgs + 1
    /\ msg = [topic |-> "esp32/telemetry",
              payload |-> Members(<< <<"temperature", Num(23)>> >>)]
    /\ log = "updated-esp32"
    /\ Field(latestAirData, "temperature") = Num(23)
    /\ Field(latestAirData, "humidity") = Num(5)
    /\ Field(latestAirData, "timestamp") # Field(pre, "timestamp")
    /\ Field(pre, "temperature") = Num(23)

GasKeys == {"gas_mq135", "co2_eq_ppm"}

\* The message is a JSON object with exactly one member, under a gas key.
IsSingleGas(m) ==
    /\ StartsWithEsp32(m.topic)
    /\ IsObjectPayload(m.payload)
    /\ Len(m.payload.members) = 1
    /\ m.payload.members[1][1] \in GasKeys

\* The same update written under the other gas key.
Alias(p) ==
    Members(<< <<CHOOSE k \in GasKeys : k # p.members[1][1], p.members[1][2]>> >>)

\* C13: an update carrying only gas_mq135 = v and one carrying only
\* co2_eq_ppm = v give, from the same record, the same co2_eq_ppm and the
\* same values of all other data fields.
C13_AliasEquivalence ==
    (Handled /\ IsSingleGas(msg)) =>
        \A f \in (CoreFields \cup DOMAIN latestAirData) \ StampFields :
           Field(latestAirData, f) =
              Field(OnMessage(pre, msg.topic, Alias(msg.payload), clock).rec, f)

C13_Witness ==
    /\ Handled
    /\ msg = [topic |-> "esp32/telemetry",
              payload |-> Members(<< <<"co2_eq_ppm", Num(412)>> >>)]
    /\ Field(pre, "co2_eq_ppm") = Num(0)
    /\ Field(latestAirData, "co2_eq_ppm") = Num(412)

\* C14: when one update carries both a relay_pin flag and a state string,
\* relay_pin ends as the state gives it (1 if the state is "ON" in any
\* letter case, otherwise 0), whatever the flag was.
C14_StateOverridesPin ==
    (/\ Handled
     /\ StartsWithEsp32(msg.topic)
     /\ IsObjectPayload(msg.payload)
     /\ {"relay_pin", "state"} \subseteq KeysOf(msg.payload)
     /\ ValueOf(msg.payload, "state").t = "string") =>
        Field(latestAirData, "relay_pin") =
           (IF ToUpperCase(ValueOf(msg.payload, "state").s) = "ON"
            THEN Num(1) ELSE Num(0))

\* The flag says on, the state says off, and the relay was on before.
C14_Witness ==
    /\ Handled
    /\ msg = [topic |-> "esp32/state",
              payload |-> Members(<< <<"relay_pin", Num(1)>>, <<"state", Str("off")>> >>)]
    /\ Field(pre, "relay_pin") = Num(1)
    /\ Field(latestAirData, "relay_pin") = Num(0)

(***************************************************************************)
(* C15, C16: transport events and the served record.                       *)
(***************************************************************************)
\* The console lines of the transport handlers; the 'message' handler
\* writes none of them.
TransportLines ==
    {"subscribed", "subscribe-error", "error", "closed", "offline", "reconnecting"}

\* C15: a transport event other than a message delivery (connect with the
\* subscription granted or refused, error, close, offline, reconnect) leaves
\* the whole record unchanged, so the record after a disconnect/reconnect
\* gap is the record before it.
C15_TransportLeavesRecord ==
    [][log' \in TransportLines => latestAirData' = latestAirData]_vars

\* The transport is up again after a gap, with the readings taken before it.
C15_Witness ==
    /\ connected
    /\ log = "subscribed"
    /\ delivered > 0
    /\ pc = "idle"
    /\ Field(latestAirData, "temperature") = Num(23)
    /\ Field(latestAirData, "last_topic") = Str("esp32/telemetry")

\* C16: the record served by GET /api/air/latest carries every field of a
\* reading (temperature, humidity, co2_eq_ppm, relay_pin, device_status,
\* timestamp, last_topic), a field never updated being present as null.
C16_LatestCarriesEveryField ==
    resp.route = "/api/air/latest" =>
        /\ (CoreFields \cup StampFields) \subseteq DOMAIN resp.body
        /\ \A f \in CoreFields \cup StampFields :
              Field(resp.of, f) = Undefined => resp.body[f] = Null

(***************************************************************************)
(* C17 - C19: values and failures inside one message.                      *)
(***************************************************************************)
\* The message is a JSON object on an esp32/ topic.
IsStructured(m) == StartsWithEsp32(m.topic) /\ IsObjectPayload(m.payload)

\* C17: if an update holds a valid numeric value under at least one of
\* gas_mq135 and co2_eq_ppm, co2_eq_ppm becomes a valid value of the update;
\* an invalid value under one key does not stop the other key's value.
C17_EitherGasKeyApplies ==
    (Handled /\ IsStructured(msg) /\ ValidValues(msg.payload, GasKeys) # {}) =>
        Field(latestAirData, "co2_eq_ppm") \in ValidValues(msg.payload, GasKeys)

\* Some key of keys is present, and none is present with a valid value.
OnlyInvalid(p, keys) ==
    /\ keys \cap KeysOf(p) # {}
    /\ ValidValues(p, keys) = {}

\* C18: a numeric key whose value is not a number or numeric string (null,
\* "", boolean, array, object) counts as absent, for every such key alike:
\* the field keeps its previous value.
C18_InvalidTypeIsAbsent ==
    (Handled /\ IsStructured(msg)) =>
        /\ OnlyInvalid(msg.payload, {"temperature"}) =>
              Field(latestAirData, "temperature") = Field(pre, "temperature")
        /\ OnlyInvalid(msg.payload, {"humidity"}) =>
              Field(latestAirData, "humidity") = Field(pre, "humidity")
        /\ OnlyInvalid(msg.payload, GasKeys) =>
              Field(latestAirData, "co2_eq_ppm") = Field(pre, "co2_eq_ppm")

\* The console lines the 'message' handler ends with: an applied update or
\* a logged drop.
HandlerLines ==
    {"updated-esp32", "updated-esp32-numeric", "ignored-esp32", "updated-numeric",
     "ignored"}

\* C19: for every topic and payload the handler completes: no exception
\* leaves it, a malformed input ends in an applied update or a logged drop,
\* and the record it leaves holds no failed value.
C19_HandlerNeverThrows ==
    Handled =>
        /\ log \in HandlerLines
        /\ \A f \in DOMAIN latestAirData : latestAirData[f] # Thrown

\* A conversion inside the mapping threw, the message was logged as
\* dropped, and the next message has been handled after it.
C19_Witness ==
    /\ delivered = 2
    /\ log = "ignored"
    /\ msg = [topic |-> "home/air/pressure", payload |-> Text("not-a-number")]
    /\ pre = OnMessage(InitialAirData, "esp32/telemetry",
                       Members(<< <<"temperature", Num(23)>>,
                                  <<"state", Unconvertible>> >>), 1).rec
    /\ latestAirData = pre

====
